---- MODULE Spec2Model ----
(***************************************************************************)
(* A model of starcli/layouts.py: the number and stats helpers, the list,  *)
(* table and grid renderers, and the star-history aggregation of          *)
(* graph_layout.                                                           *)
(*                                                                         *)
(* Python values are tagged records (int, str, None, or a key that is not  *)
(* in the dict); a Python string is a sequence of one-character strings,   *)
(* a glyph being one element ("STAR", "FORK", "EYES", "ELLIPSIS").         *)
(* A date is a day number counted from 2020-01-01 (day 0).                 *)
(***************************************************************************)
EXTENDS Integers, Sequences, FiniteSets, TLC

VARIABLES pc,            \* which call is in progress / has returned
          number,        \* argument of shorten_count
          shortened,     \* return value of shorten_count
          repo,          \* argument of get_stats
          stats,         \* return value of get_stats
          repos,         \* the caller's list of repo dicts (shared, mutable)
          orig,          \* history: the caller's records before any call
          console,       \* what the last layout call printed
          star_dates,    \* argument of graph_layout
          today,         \* datetime.now().date()
          col_count,     \* terminal columns, get_terminal_size()
          i,             \* loop variable of graph_layout
          star_counts,   \* the cumulative series being built
          printed,       \* the Upper/Lower/star_arr lines graph_layout prints
          plotted        \* the arguments handed to terminalplot.plot

vars == <<pc, number, shortened, repo, stats, repos, orig, console,
          star_dates, today, col_count, i, star_counts, printed, plotted>>

shortenVars == <<number, shortened>>
statsVars   == <<repo, stats>>
layoutVars  == <<repos, orig, console>>
graphVars   == <<star_dates, today, col_count, i, star_counts, printed, plotted>>

(***************************************************************************)
(* Bounds of the model.                                                    *)
(***************************************************************************)
MaxNumber == 125000     \* shorten_count is applied to 0..MaxNumber
MaxRepos  == 2          \* length of the list handed to a layout
MaxStars  == 3          \* length of star_dates
MaxDay    == 10         \* dates are days 0..MaxDay after 2020-01-01
MaxCols   == 14         \* terminal columns 1..MaxCols

(***************************************************************************)
(* Python strings and values.                                              *)
(***************************************************************************)
Digits == <<"0", "1", "2", "3", "4", "5", "6", "7", "8", "9">>

RECURSIVE StrNat(_)
StrNat(n) == IF n < 10 THEN <<Digits[n + 1]>>
             ELSE StrNat(n \div 10) \o <<Digits[(n % 10) + 1]>>

\* str(n) of an int
StrInt(n) == IF n < 0 THEN <<"-">> \o StrNat(-n) ELSE StrNat(n)

PyInt(n) == [tag |-> "int", num |-> n, txt |-> <<>>]
PyStr(s) == [tag |-> "str", num |-> 0, txt |-> s]
PyNone   == [tag |-> "none", num |-> 0, txt |-> <<>>]
NoKey    == [tag |-> "nokey", num |-> 0, txt |-> <<>>]

\* a != b of Python: an int never equals a str
PyNe(a, b) == \/ a.tag # b.tag
              \/ a.tag = "int" /\ a.num # b.num
              \/ a.tag = "str" /\ a.txt # b.txt

\* truthiness: None, "" and 0 are false
Truthy(v) == \/ v.tag = "str" /\ v.txt # <<>>
             \/ v.tag = "int" /\ v.num # 0

\* f"{v}" : str() of an int, the string itself, "None" for None
Format(v) == CASE v.tag = "int" -> StrInt(v.num)
               [] v.tag = "str" -> v.txt
               [] OTHER         -> <<"N", "o", "n", "e">>

(***************************************************************************)
(* shorten_count                                                           *)
(***************************************************************************)
RECURSIVE Pow2Mod(_, _)
Pow2Mod(k, m) == IF k = 0 THEN 1 % m ELSE (2 * Pow2Mod(k - 1, m)) % m

RECURSIVE BinExp(_, _)
\* the e with pow * 2^e <= n < pow * 2^(e+1); with pow = 100, the binary
\* exponent of the double n / 100.0
BinExp(n, pow) == IF 2 * pow > n THEN 0 ELSE 1 + BinExp(n, 2 * pow)

\* n / 100.0 is the double m / 2^k nearest to n/100, with 2^52 <= m < 2^53.
\* It lies above the exact quotient when n * 2^k mod 100 exceeds 50, below
\* it when the remainder is under 50, and is exact when the remainder is 0.
DoubleAbove(n) ==
  LET k == 52 - BinExp(n, 100)
  IN  ((n % 100) * Pow2Mod(k, 100)) % 100 > 50

DoubleExact(n) == n % 25 = 0

\* round(number / 100.0, 1), in tenths: correctly rounded on the value of
\* the double, a tie (only when the double is exactly x.y5) going to even
Round1(n) ==
  LET q == n \div 10
      r == n % 10
  IN  IF r < 5 THEN q
      ELSE IF r > 5 THEN q + 1
      ELSE IF DoubleExact(n) THEN (IF q % 2 = 0 THEN q ELSE q + 1)
      ELSE IF DoubleAbove(n) THEN q + 1
      ELSE q

\* math.ceil of a value given in tenths
Ceil(tenths) == (tenths + 9) \div 10

NearestHundred(n) == ((n + 50) \div 100) * 100

\* new_number = math.ceil(round(number / 100.0, 1)) * 100
NewNumber(n) == Ceil(Round1(n)) * 100

FloorDivThousand(new_number) == StrNat(new_number \div 1000)

\* str(new_number / 1000.0) for a multiple of 100: the shortest repr
StrThousands(new_number) ==
  StrNat(new_number \div 1000) \o <<".">> \o
  <<Digits[((new_number \div 100) % 10) + 1]>>

shorten_count(n) ==
  IF n < 1000 THEN StrInt(n)
  ELSE LET new_number == NewNumber(n)
       IN  IF new_number % 1000 = 0
             THEN <<StrInt(new_number)[1]>> \o <<"k">>
           ELSE IF new_number < 1000 THEN StrInt(n)
           ELSE StrThousands(new_number) \o <<"k">>

InitShorten ==
  /\ pc = "shorten"
  /\ number \in 0..MaxNumber
  /\ shortened = <<>>

ShortenCount ==
  /\ pc = "shorten"
  /\ shortened' = shorten_count(number)
  /\ pc' = "shortened"
  /\ UNCHANGED <<number, statsVars, layoutVars, graphVars>>

(***************************************************************************)
(* get_stats                                                               *)
(***************************************************************************)
MinusOne == <<"-", "1">>

\* f"{count} <glyph> " if count != "-1" else ""
StatsPart(count, glyph) ==
  IF PyNe(count, PyStr(MinusOne))
    THEN Format(count) \o <<" ", glyph, " ">>
    ELSE <<>>

get_stats(r) ==
  StatsPart(r.stargazers_count, "STAR") \o
  StatsPart(r.forks_count, "FORK") \o
  StatsPart(r.watchers_count, "EYES")

Counts == {PyInt(-1), PyStr(MinusOne), PyInt(0), PyInt(2), PyInt(5),
           PyInt(1500)}

InitStats ==
  /\ pc = "stats"
  /\ repo \in [stargazers_count : Counts, forks_count : Counts,
               watchers_count : Counts]
  /\ stats = <<>>

GetStats ==
  /\ pc = "stats"
  /\ stats' = get_stats(repo)
  /\ pc' = "stats_done"
  /\ UNCHANGED <<repo, shortenVars, layoutVars, graphVars>>

(***************************************************************************)
(* String helpers used by the layouts.                                     *)
(***************************************************************************)
StarsWord == <<"s", "t", "a", "r", "s">>

RECURSIVE Replace(_, _, _)
\* s.replace(old, new), old non-empty
Replace(s, old, new) ==
  IF Len(s) < Len(old) THEN s
  ELSE IF SubSeq(s, 1, Len(old)) = old
    THEN new \o Replace(SubSeq(s, Len(old) + 1, Len(s)), old, new)
  ELSE <<Head(s)>> \o Replace(Tail(s), old, new)

IsSpace(c) == c \in {" ", "\n", "\t"}

RECURSIVE LStrip(_)
LStrip(s) == IF s # <<>> /\ IsSpace(Head(s)) THEN LStrip(Tail(s)) ELSE s

RECURSIVE RStrip(_)
RStrip(s) == IF s # <<>> /\ IsSpace(s[Len(s)])
               THEN RStrip(SubSeq(s, 1, Len(s) - 1)) ELSE s

\* s.strip()
Strip(s) == RStrip(LStrip(s))

LAYOUT_WIDTH == 80
max_desc_len == 90

\* Text.truncate(max_desc_len, overflow="ellipsis"), one cell per character
Truncate(s) ==
  IF Len(s) > max_desc_len
    THEN SubSeq(s, 1, max_desc_len - 1) \o <<"ELLIPSIS">>
    ELSE s

NoneWord        == <<"N", "o", "n", "e">>
UnknownLanguage == <<"u", "n", "k", "n", "o", "w", "n", " ",
                     "l", "a", "n", "g", "u", "a", "g", "e">>
NoDescription   == <<"n", "o", " ", "d", "e", "s", "c", "r", "i", "p",
                     "t", "i", "o", "n">>

\* "date_range" in repo.keys() and repo["date_range"]
HasDateRange(r) == r.date_range.tag # "nokey" /\ Truthy(r.date_range)

\* repo["date_range"].replace("stars", <star glyph>)
DateRangeText(r) == Replace(r.date_range.txt, StarsWord, <<"STAR">>)

(***************************************************************************)
(* list_layout                                                             *)
(***************************************************************************)
\* the renderables render_repo yields for one repo
render_repo(r) ==
  [ title       |-> Format(r.full_name),
    link        |-> Format(r.html_url),
    stats       |-> get_stats(r),
    language    |-> IF Truthy(r.language)
                      THEN [text |-> r.language.txt, style |-> "bold cyan"]
                      ELSE [text |-> UnknownLanguage, style |-> ""],
    date_range  |-> IF HasDateRange(r)
                      THEN [text |-> DateRangeText(r), style |-> "bold cyan"]
                      ELSE [text |-> <<>>, style |-> ""],
    description |-> IF Truthy(r.description)
                      THEN [text |-> Strip(r.description.txt), style |-> "green"]
                      ELSE [text |-> NoDescription, style |-> "i green"] ]

ListLayout ==
  /\ pc = "layout"
  /\ console' = [ layout |-> "list",
                  width  |-> LAYOUT_WIDTH,
                  blocks |-> [k \in 1..Len(repos) |-> render_repo(repos[k])],
                  rules  |-> Len(repos) + 1 ]
  /\ UNCHANGED <<pc, repos, orig, shortenVars, statsVars, graphVars>>

(***************************************************************************)
(* table_layout and grid_layout                                            *)
(***************************************************************************)
\* if not repo["language"]: repo["language"] = "None"
\* if not repo["description"]: repo["description"] = "None"
Defaulted(r) ==
  [r EXCEPT !.language    = IF Truthy(@) THEN @ ELSE PyStr(NoneWord),
            !.description = IF Truthy(@) THEN @ ELSE PyStr(NoneWord)]

table_row(r) ==
  [ name        |-> Format(r.name),
    language    |-> Defaulted(r).language.txt,
    description |-> Defaulted(r).description.txt,
    stats       |-> get_stats(r) \o
                    (IF HasDateRange(r) THEN <<"\n">> \o DateRangeText(r)
                                        ELSE <<>>) ]

TableLayout ==
  /\ pc = "layout"
  /\ repos' = [k \in 1..Len(repos) |-> Defaulted(repos[k])]
  /\ console' = [ layout |-> "table",
                  blocks |-> [k \in 1..Len(repos) |-> table_row(repos[k])] ]
  /\ UNCHANGED <<pc, orig, shortenVars, statsVars, graphVars>>

\* Text.assemble(name, "\n", stats, "\n", date_range_str, language, "\n",
\*               description)
grid_panel(r) ==
  [ summary |->
      Format(r.name) \o <<"\n">> \o get_stats(r) \o <<"\n">> \o
      (IF HasDateRange(r) THEN DateRangeText(r) \o <<"\n">> ELSE <<>>) \o
      Defaulted(r).language.txt \o <<"\n">> \o
      Truncate(Defaulted(r).description.txt),
    language    |-> Defaulted(r).language.txt,
    description |-> Truncate(Defaulted(r).description.txt),
    stats       |-> get_stats(r) ]

GridLayout ==
  /\ pc = "layout"
  /\ repos' = [k \in 1..Len(repos) |-> Defaulted(repos[k])]
  /\ console' = [ layout |-> "grid",
                  blocks |-> [k \in 1..Len(repos) |-> grid_panel(repos[k])] ]
  /\ UNCHANGED <<pc, orig, shortenVars, statsVars, graphVars>>

\* the records the layouts are tried on
CountTriples ==
  { <<PyInt(1500), PyInt(-1), PyInt(-1)>>,
    <<PyInt(5), PyInt(-1), PyInt(2)>>,
    <<PyStr(MinusOne), PyStr(MinusOne), PyStr(MinusOne)>> }

LongText == [k \in 1..(max_desc_len + 1) |-> "d"]

RepoPool ==
  { [ name             |-> PyStr(<<"y">>),
      full_name        |-> PyStr(<<"x", "/", "y">>),
      html_url         |-> PyStr(<<"h", "t", "t", "p", ":", "/", "/", "x">>),
      stargazers_count |-> c[1],
      forks_count      |-> c[2],
      watchers_count   |-> c[3],
      language         |-> l,
      description      |-> d,
      date_range       |-> dr ] :
    c \in CountTriples,
    l \in {PyNone, PyStr(<<>>), PyStr(<<"G", "o">>)},
    d \in {PyNone, PyStr(<<" ", "a", " ", "b", " ">>), PyStr(LongText)},
    dr \in {NoKey, PyStr(<<"3", " ">> \o StarsWord)} }

InitLayout ==
  /\ pc = "layout"
  /\ repos \in UNION {[1..n -> RepoPool] : n \in 1..MaxRepos}
  /\ orig = repos
  /\ console = [layout |-> "none", blocks |-> <<>>]

(***************************************************************************)
(* graph_layout: dates and timedeltas                                      *)
(*                                                                         *)
(* A timedelta is a whole number of microseconds. date - date is a whole   *)
(* number of days; timedelta / int rounds to the nearest microsecond (ties *)
(* to even); int * timedelta is exact; date + timedelta adds the           *)
(* timedelta's .days, the floor of its value in days.  A day has           *)
(* 86400 * 1000000 microseconds, too many for the arithmetic of the model  *)
(* checker, so a quotient (days / den) is kept as its exact fraction plus  *)
(* the sign of the rounding error.                                         *)
(***************************************************************************)
SecondsPerDay  == 86400
MicrosPerSec   == 1000000

\* (microseconds of a day) mod m
DayMicrosMod(m) == ((SecondsPerDay % m) * (MicrosPerSec % m)) % m

\* sign of round(b * U / c) - b * U / c, U the microseconds of a day
RoundErr(b, c) ==
  LET r == (b * DayMicrosMod(c)) % c
      q == (((b * DayMicrosMod(2 * c)) % (2 * c)) - r) \div c
  IN  IF r = 0 THEN 0
      ELSE IF 2 * r < c THEN -1
      ELSE IF 2 * r > c THEN 1
      ELSE IF q % 2 = 0 THEN -1 ELSE 1

\* timedelta(days) / den
TimedeltaDiv(days, den) ==
  [days |-> days, den |-> den, err |-> RoundErr(days % den, den)]

\* (k * delta).days
MulDays(k, delta) ==
  LET a == delta.days \div delta.den
      b == delta.days % delta.den
  IN  k * a + ((k * b) \div delta.den)
      - (IF (k * b) % delta.den = 0 /\ k > 0 /\ delta.err < 0 THEN 1 ELSE 0)

\* date + k * delta
DateAdd(d, k, delta) == d + MulDays(k, delta)

min_date == star_dates[1]
max_date == today
max_stars == Len(star_dates)
date_delta == TimedeltaDiv(max_date - min_date, col_count)

lower_date(col) == DateAdd(min_date, col, date_delta)
upper_date(col) == DateAdd(min_date, col + 1, date_delta)

InBucketClosed(x, col) == x >= lower_date(col) /\ x <= upper_date(col)

\* x >= lower_date and x < upper_date
InBucket(x, col) == x >= lower_date(col) /\ x < upper_date(col)

\* [x for x in star_dates if (x >= lower_date and x < upper_date)]
star_arr(col) == SelectSeq(star_dates, LAMBDA x : InBucket(x, col))

IncrementOnly(col, counts) == Len(star_arr(col))

\* len(star_arr) + star_counts[i - 1]
NextCount(col, counts) == Len(star_arr(col)) + counts[col]

RECURSIVE SortedSeqs(_)
\* the non-decreasing sequences of n days
SortedSeqs(n) ==
  IF n = 1 THEN {<<d>> : d \in 0..MaxDay}
  ELSE {Append(s, d) : s \in SortedSeqs(n - 1), d \in 0..MaxDay}
         \cap {s \in [1..n -> 0..MaxDay] : s[n - 1] <= s[n]}

InitGraph ==
  /\ pc = "graph"
  /\ star_dates \in UNION {SortedSeqs(n) : n \in 1..MaxStars}
  /\ today \in star_dates[Len(star_dates)]..MaxDay
  /\ col_count \in 1..MaxCols
  /\ i = 0
  /\ star_counts = <<>>
  /\ printed = <<>>
  /\ plotted = [x |-> <<>>, y |-> <<>>, cols |-> 0]

\* lines 187-211: the dates and deltas, star_counts = [0]
GraphStart ==
  /\ pc = "graph"
  /\ star_counts' = <<0>>
  /\ i' = 1
  /\ pc' = "loop"
  /\ UNCHANGED <<star_dates, today, col_count, printed, plotted,
                 shortenVars, statsVars, layoutVars>>

\* one iteration of: for i in range(1, col_count)
GraphColumn ==
  /\ pc = "loop"
  /\ i < col_count
  /\ printed' = Append(printed, [upper |-> upper_date(i),
                                 lower |-> lower_date(i),
                                 star_arr |-> star_arr(i)])
  /\ star_counts' = Append(star_counts, NextCount(i, star_counts))
  /\ i' = i + 1
  /\ UNCHANGED <<pc, star_dates, today, col_count, plotted,
                 shortenVars, statsVars, layoutVars>>

\* plot([x for x in range(0, col_count)], star_counts, row_count, col_count)
GraphPlot ==
  /\ pc = "loop"
  /\ i >= col_count
  /\ plotted' = [x |-> [k \in 1..col_count |-> k - 1],
                 y |-> star_counts,
                 cols |-> col_count]
  /\ pc' = "plotted"
  /\ UNCHANGED <<star_dates, today, col_count, i, star_counts, printed,
                 shortenVars, statsVars, layoutVars>>

(***************************************************************************)
(* Specifications: one per part of the module.  The variables of the       *)
(* other parts stay at their idle values.                                  *)
(***************************************************************************)
IdleShorten == number = 0 /\ shortened = <<>>
IdleStats   == repo = [stargazers_count |-> PyNone, forks_count |-> PyNone,
                       watchers_count |-> PyNone]
               /\ stats = <<>>
IdleLayout  == repos = <<>> /\ orig = <<>>
               /\ console = [layout |-> "none", blocks |-> <<>>]
IdleGraph   == /\ star_dates = <<>> /\ today = 0 /\ col_count = 0 /\ i = 0
               /\ star_counts = <<>> /\ printed = <<>>
               /\ plotted = [x |-> <<>>, y |-> <<>>, cols |-> 0]

ShortenInit == InitShorten /\ IdleStats /\ IdleLayout /\ IdleGraph
StatsInit   == InitStats /\ IdleShorten /\ IdleLayout /\ IdleGraph
LayoutInit  == InitLayout /\ IdleShorten /\ IdleStats /\ IdleGraph
GraphInit   == InitGraph /\ IdleShorten /\ IdleStats /\ IdleLayout

ShortenNext == ShortenCount
StatsNext   == GetStats
LayoutNext  == ListLayout \/ TableLayout \/ GridLayout
GraphNext   == GraphStart \/ GraphColumn \/ GraphPlot

SpecShorten == ShortenInit /\ [][ShortenNext]_vars
SpecStats   == StatsInit /\ [][StatsNext]_vars
SpecLayout  == LayoutInit /\ [][LayoutNext]_vars
SpecGraph   == GraphInit /\ [][GraphNext]_vars

Init == ShortenInit \/ StatsInit \/ LayoutInit \/ GraphInit
Next == ShortenNext \/ StatsNext \/ LayoutNext \/ GraphNext
Spec == Init /\ [][Next]_vars

(***************************************************************************)
(* Helpers of the properties.                                              *)
(***************************************************************************)
Last(s) == s[Len(s)]

Contains(s, sub) ==
  \E k \in 1..(Len(s) - Len(sub) + 1) : SubSeq(s, k, k + Len(sub) - 1) = sub

Has(s, c) == \E k \in 1..Len(s) : s[k] = c

IsDigit(c) == \E d \in 0..9 : Digits[d + 1] = c
DigitVal(c) == CHOOSE d \in 0..9 : Digits[d + 1] = c

RECURSIVE ParseNat(_)
ParseNat(s) == IF s = <<>> THEN 0
               ELSE 10 * ParseNat(SubSeq(s, 1, Len(s) - 1)) + DigitVal(Last(s))

AllDigits(s) == s # <<>> /\ \A k \in 1..Len(s) : IsDigit(s[k])

\* s is "<digits>k" or "<digits>.<digit>k"
IsThousands(s) ==
  /\ Len(s) >= 2
  /\ Last(s) = "k"
  /\ \/ AllDigits(SubSeq(s, 1, Len(s) - 1))
     \/ /\ Len(s) >= 4
        /\ s[Len(s) - 2] = "."
        /\ IsDigit(s[Len(s) - 1])
        /\ AllDigits(SubSeq(s, 1, Len(s) - 3))

\* the number a string "<v>k" stands for, v * 1000
ThousandsValue(s) ==
  IF Len(s) >= 4 /\ s[Len(s) - 2] = "."
    THEN ParseNat(SubSeq(s, 1, Len(s) - 3)) * 1000
           + DigitVal(s[Len(s) - 1]) * 100
    ELSE ParseNat(SubSeq(s, 1, Len(s) - 1)) * 1000

\* h / 1000 written as a decimal with one place, h a multiple of 100
Decimal(h) == StrNat(h \div 1000) \o <<".", Digits[((h \div 100) % 10) + 1]>>

Abs(x) == IF x < 0 THEN -x ELSE x

IsSentinel(v) == v = PyInt(-1) \/ v = PyStr(MinusOne)

Absent(v) == ~Truthy(v)

(***************************************************************************)
(* shorten_count                                                           *)
(***************************************************************************)
\* C6 as stated: shorten_count(12345) ends in "k" and has strictly fewer
\* characters than "12345".
C6_StrictlyShorter ==
  (pc = "shortened" /\ number = 12345) =>
    /\ Last(shortened) = "k"
    /\ Len(shortened) < Len(StrInt(12345))

\* C6 amended: shorten_count(12345) ends in "k" and has exactly as many
\* characters as "12345", not fewer.
C6_EndsInKSameLength ==
  (pc = "shortened" /\ number = 12345) =>
    /\ Last(shortened) = "k"
    /\ Len(shortened) = Len(StrInt(12345))

C6_Witness == pc = "shortened" /\ number = 12345 /\ Len(shortened) = 5

C10_WithinAHundred ==
  (pc = "shortened" /\ number >= 1000) =>
    /\ IsThousands(shortened)
    /\ Abs(ThousandsValue(shortened) - number) < 100
    /\ number = 10000 => shortened = <<"1", "0", "k">>
    /\ number = 25000 => shortened = <<"2", "5", "k">>
    /\ number = 123000 => shortened = <<"1", "2", "3", "k">>

(***************************************************************************)
(* get_stats                                                               *)
(***************************************************************************)
\* C2: get_stats skips every count field whose value is the sentinel -1: it
\* returns "" when all three are -1, and for stars 5, forks -1, watchers 2
\* the result has a star token and then a watcher token, no fork token and
\* never the text "-1".
C2_SentinelsSkipped ==
  pc = "stats_done" =>
    /\ IsSentinel(repo.stargazers_count) => ~Has(stats, "STAR")
    /\ IsSentinel(repo.forks_count) => ~Has(stats, "FORK")
    /\ IsSentinel(repo.watchers_count) => ~Has(stats, "EYES")
    /\ ( /\ IsSentinel(repo.stargazers_count)
         /\ IsSentinel(repo.forks_count)
         /\ IsSentinel(repo.watchers_count) ) => stats = <<>>
    /\ ( /\ repo.stargazers_count = PyInt(5)
         /\ IsSentinel(repo.forks_count)
         /\ repo.watchers_count = PyInt(2) ) =>
         /\ \E j, k \in 1..Len(stats) :
              j < k /\ stats[j] = "STAR" /\ stats[k] = "EYES"
         /\ ~Has(stats, "FORK")
         /\ ~Contains(stats, MinusOne)

(***************************************************************************)
(* The layouts                                                             *)
(***************************************************************************)
\* C3: list_layout of the single record x/y with 1500 stars, forks and
\* watchers -1, no language and no description shows the star count as
\* "1.5k" (not "1500") on the title row, "unknown language" on the language
\* row and the "no description" placeholder.
C3_ListShowsShortenedCount ==
  ( /\ console.layout = "list"
    /\ Len(orig) = 1
    /\ orig[1].stargazers_count = PyInt(1500)
    /\ IsSentinel(orig[1].forks_count)
    /\ IsSentinel(orig[1].watchers_count)
    /\ orig[1].language = PyNone
    /\ orig[1].description = PyNone ) =>
    /\ console.blocks[1].title = <<"x", "/", "y">>
    /\ Contains(console.blocks[1].stats, <<"1", ".", "5", "k">>)
    /\ ~Contains(console.blocks[1].stats, <<"1", "5", "0", "0">>)
    /\ console.blocks[1].language.text = UnknownLanguage
    /\ console.blocks[1].description.text = NoDescription

\* C4: for a record whose description (or language) is absent, table_layout
\* and grid_layout render "None" and list_layout renders "no description"
\* (or "unknown language"), whatever layouts were called on the record
\* before.
C4_PlaceholdersDiverge ==
  \A k \in 1..Len(orig) :
    /\ (console.layout \in {"table", "grid"} /\ Absent(orig[k].description))
         => console.blocks[k].description = NoneWord
    /\ (console.layout \in {"table", "grid"} /\ Absent(orig[k].language))
         => console.blocks[k].language = NoneWord
    /\ (console.layout = "list" /\ Absent(orig[k].description))
         => console.blocks[k].description.text = NoDescription
    /\ (console.layout = "list" /\ Absent(orig[k].language))
         => console.blocks[k].language.text = UnknownLanguage

\* C5: after list_layout, table_layout or grid_layout returns, every field
\* of every record of the caller's list has the value it had before the
\* call.
C5_RecordsUnchanged ==
  \A k \in 1..Len(orig) : repos[k] = orig[k]

(***************************************************************************)
(* graph_layout                                                            *)
(***************************************************************************)
\* C1: the last value of the cumulative series handed to plot equals the
\* number of input timestamps.
C1_FinalEqualsTotal ==
  pc = "plotted" => Last(plotted.y) = Len(star_dates)

\* C8: the series handed to plot has exactly col_count x-values 0..c-1 and
\* col_count cumulative counts, the count at column 0 is 0, and the counts
\* are non-decreasing from each column to the next.
C8_SeriesShape ==
  pc = "plotted" =>
    /\ Len(plotted.x) = col_count
    /\ \A k \in 1..col_count : plotted.x[k] = k - 1
    /\ Len(plotted.y) = col_count
    /\ plotted.y[1] = 0
    /\ \A k \in 1..(col_count - 1) : plotted.y[k] <= plotted.y[k + 1]

C8_Witness ==
  /\ pc = "plotted"
  /\ col_count >= 3
  /\ \E k \in 1..(col_count - 1) : plotted.y[k] < plotted.y[k + 1]

\* C9: an event dated t adds to the increment of column k (1 <= k < c)
\* exactly when min_date + k*date_delta <= t < min_date + (k+1)*date_delta;
\* the buckets are half-open and disjoint, no event is counted in two
\* columns; with min_date day 0 (2020-01-01), today day 10 (2020-01-11) and
\* 5 columns every bucket spans 2 days and an event of day 2 (2020-01-03) is
\* counted in bucket 1, not bucket 2.
C9_HalfOpenBuckets ==
  /\ \A k \in 1..Len(printed) :
       /\ star_counts[k + 1] - star_counts[k] =
            Cardinality({j \in 1..Len(star_dates) :
                           /\ lower_date(k) <= star_dates[j]
                           /\ star_dates[j] < upper_date(k)})
       /\ printed[k].lower <= printed[k].upper
       /\ \A l \in 1..Len(printed) :
            k < l => printed[k].upper <= printed[l].lower
  /\ \A j \in 1..Len(star_dates) :
       Cardinality({k \in 1..Len(printed) :
                      Has(printed[k].star_arr, star_dates[j])}) <= 1
  /\ (pc # "graph" /\ min_date = 0 /\ max_date = 10 /\ col_count = 5) =>
       \A k \in 1..Len(printed) :
         /\ printed[k].lower = 2 * k
         /\ printed[k].upper = 2 * k + 2
         /\ Has(star_dates, 2) => (Has(printed[k].star_arr, 2) <=> k = 1)

C9_Witness ==
  /\ pc = "plotted"
  /\ min_date = 0 /\ max_date = 10 /\ col_count = 5
  /\ Has(star_dates, 2)
  /\ Has(printed[1].star_arr, 2)
  /\ star_counts[2] > star_counts[1]

====
